---- MODULE Spec2Model ----
(***************************************************************************)
(* Model of sourced/engine/engine.py: the Python binding of the source{d}  *)
(* Engine.  Engine is the entry point; SourcedDataFrame and its seven      *)
(* subclasses are proxies over a JVM DataFrame handle (_jdf) that carry a  *)
(* session and the Scala implicits object.  Every method either forwards a *)
(* pyspark DataFrame method through _wrapper or asks the JVM engine for a  *)
(* derived handle and wraps it in the class of the destination concept.    *)
(*                                                                         *)
(* The JVM side is a recording engine: every request a call issues is      *)
(* recorded, in order, in lastCall.reqs, and any request may raise.        *)
(* A handle is abstracted to the set of reference names that the reference *)
(* selections applied to it so far (getHEAD, getMaster,                    *)
(* getRemoteReferences, filter on the name column) have left (field refs). *)
(***************************************************************************)
EXTENDS Integers, Sequences, FiniteSets, TLC

VARIABLES
    engine,      \* the Engine object: session, implicits (engine.py:30-53)
    conf,        \* session.conf of every session: the shared configuration
    cur,         \* the object the caller holds: the value of the chain so far
    lastCall     \* what the last call did: receiver, requests, error, returned value

vars == <<engine, conf, cur, lastCall>>

----------------------------------------------------------------------------
(* Bounds *)

\* number of remote references in the repositories under analysis
MaxRemoteRefs == 1

----------------------------------------------------------------------------
(* Values *)

None == "None"

Sessions == {"session1", "session2"}

\* getattr(getattr(jvm.tech.sourced.engine, 'package$'), 'MODULE$'): the
\* implicits object of the JVM behind the session's gateway
Implicits(session) == "package$.MODULE$@" \o session

ReposPath == "/path/to/my/repositories"
ReposFormat == "siva"

PathKey == "spark.tech.sourced.engine.repositories.path"
FormatKey == "spark.tech.sourced.engine.repositories.format"

HEAD == "refs/heads/HEAD"
MASTER == "refs/heads/master"
RemotePool == <<"refs/remotes/origin/master", "refs/remotes/origin/dev", "refs/remotes/origin/fix">>
RemoteRefs == {RemotePool[i] : i \in 1..MaxRemoteRefs}
RefNames == {HEAD, MASTER} \cup RemoteRefs

SourcedDataFrame == "SourcedDataFrame"
RepositoriesDataFrame == "RepositoriesDataFrame"
ReferencesDataFrame == "ReferencesDataFrame"
CommitsDataFrame == "CommitsDataFrame"
TreeEntriesDataFrame == "TreeEntriesDataFrame"
BlobsDataFrame == "BlobsDataFrame"
BlobsWithLanguageDataFrame == "BlobsWithLanguageDataFrame"
UASTsDataFrame == "UASTsDataFrame"

\* the subclasses of SourcedDataFrame
Specialized == {RepositoriesDataFrame, ReferencesDataFrame, CommitsDataFrame,
                TreeEntriesDataFrame, BlobsDataFrame, BlobsWithLanguageDataFrame,
                UASTsDataFrame}

\* pyspark.sql.DataFrame itself, and a Python list of DataFrames
DataFrame == "DataFrame"
ListOfDataFrame == "list"

\* an object of the layer (or a plain value pyspark returned): its class and
\* fields.  root is history: "engine" when the object descends from the Engine
\* entry point, "user" when the caller constructed its first ancestor.
Object(cls, jdf, session, implicits, root) ==
    [cls |-> cls, jdf |-> jdf, session |-> session, implicits |-> implicits, root |-> root]

NoJdf == [refs |-> {}]
NoObject == Object(None, NoJdf, None, None, None)

IsProxy(o) == o.cls \in Specialized \cup {SourcedDataFrame}

\* errors: [type, msg]
Error(type, msg) == [type |-> type, msg |-> msg]
NoErr == Error("", "")

\* the failure the JVM side can raise on a request
Py4JJavaError == Error("Py4JJavaError", "An error occurred while calling")
EngineErrors == {Py4JJavaError}

\* a request to the JVM: method m; for a filter, the column and the value compared
Req(m, col, val) == [m |-> m, col |-> col, val |-> val]

\* which request of a call fails (at = 0: none), and with what
NoFail == [at |-> 0, err |-> NoErr]
FailsOf(n) == {NoFail} \cup {[at |-> k, err |-> e] : k \in 1..n, e \in EngineErrors}

\* the failures of a call that issues one request, or at most two
Fails == FailsOf(1)
Fails2 == FailsOf(2)

----------------------------------------------------------------------------
(* The JVM side: what each request does to a handle *)

\* tech.sourced.engine: the engine's handle-to-handle transformations
EngineSem(m, col, val, jdf) ==
    CASE m = "getRemoteReferences" -> [refs |-> jdf.refs \cap RemoteRefs]
      [] m = "getHEAD" -> [refs |-> jdf.refs \cap {HEAD}]
      [] m = "getMaster" -> [refs |-> jdf.refs \cap {MASTER}]
      [] m = "getRepositories" -> [refs |-> RefNames]
      [] OTHER -> jdf

\* pyspark.sql.DataFrame: filter on the name column keeps the rows of that
\* reference; the other transformations select no reference and leave refs as it is
SparkSem(m, col, val, jdf) ==
    CASE m = "filter" /\ col = "name" -> [refs |-> jdf.refs \cap {val}]
      [] OTHER -> jdf

\* a call in progress: the requests issued so far, the handle obtained, the
\* error being raised, what the JVM side threw and in which method, the number
\* of EngineDataFrame conversions, the failure to come
Start(jdf, f) ==
    [reqs |-> <<>>, jdf |-> jdf, err |-> NoErr, thrown |-> NoErr, thrownBy |-> "",
     conv |-> 0, f |-> f]

\* a bug JCall could have: the failed request is issued a second time
JCall_retries(st, m, col, val, jdfAfter) ==
    IF st.err # NoErr THEN st
    ELSE LET reqs == Append(st.reqs, Req(m, col, val)) IN
         IF st.f.at = Len(reqs)
         THEN [st EXCEPT !.reqs = Append(reqs, Req(m, col, val)), !.thrown = st.f.err,
                         !.thrownBy = m, !.jdf = jdfAfter]
         ELSE [st EXCEPT !.reqs = reqs, !.jdf = jdfAfter]

\* one request to the JVM: recorded, then it raises or returns the new handle;
\* nothing is requested once an exception is propagating
JCall(st, m, col, val, jdfAfter) ==
    IF st.err # NoErr THEN st
    ELSE LET reqs == Append(st.reqs, Req(m, col, val)) IN
         IF st.f.at = Len(reqs)
         THEN [st EXCEPT !.reqs = reqs, !.err = st.f.err, !.thrown = st.f.err,
                         !.thrownBy = m]
         ELSE [st EXCEPT !.reqs = reqs, !.jdf = jdfAfter]

\* a method of the engine or of EngineDataFrame
Get(st, m) == JCall(st, m, "", "", EngineSem(m, "", "", st.jdf))

\* the outcome of a call: the returned value (NoObject when it raised), the
\* error the caller gets, and from the call st: the requests issued, what the JVM
\* side threw, the conversions made
Result(ret, err, st) ==
    [ret |-> ret, err |-> err, reqs |-> st.reqs, thrown |-> st.thrown,
     thrownBy |-> st.thrownBy, conv |-> st.conv]

----------------------------------------------------------------------------
(* class SourcedDataFrame *)

\* SourcedDataFrame.__init__ (and the subclasses' __init__, which only call it)
SourcedDataFrame__init__(cls, jdf, session, implicits, root) ==
    Object(cls, jdf, session, implicits, root)

\* Cls(<handle>, self._session, self._implicits): the tail of every navigation
New(cls, self, st) ==
    IF st.err # NoErr THEN Result(NoObject, st.err, st)
    ELSE Result(SourcedDataFrame__init__(cls, st.jdf, self.session, self.implicits, self.root),
                NoErr, st)

\* self._implicits.EngineDataFrame(self._jdf): the implicit conversion, no new handle
_engine_dataframe(self, f) == [Start(self.jdf, f) EXCEPT !.conv = 1]

\* the class attributes of SourcedDataFrame and the DataFrame method each wraps
\* (drop_duplicates, orderBy and where are bound to the wrapper of another name)
MethodTable ==
    [alias |-> "alias", checkpoint |-> "checkpoint", coalesce |-> "coalesce",
     crossJoin |-> "crossJoin", crosstab |-> "crosstab", describe |-> "describe",
     distinct |-> "distinct", dropDuplicates |-> "dropDuplicates",
     drop_duplicates |-> "dropDuplicates", drop |-> "drop", dropna |-> "dropna",
     fillna |-> "fillna", filter |-> "filter", freqItems |-> "freqItems",
     hint |-> "hint", intersect |-> "intersect", join |-> "join", limit |-> "limit",
     randomSplit |-> "randomSplit", repartition |-> "repartition",
     replace |-> "replace", sampleBy |-> "sampleBy", sample |-> "sample",
     selectExpr |-> "selectExpr", select |-> "select", sort |-> "sort",
     orderBy |-> "sort", sortWithinPartitions |-> "sortWithinPartitions",
     subtract |-> "subtract", summary |-> "summary", toDF |-> "toDF",
     unionByName |-> "unionByName", union |-> "union", where |-> "filter",
     withColumn |-> "withColumn", withColumnRenamed |-> "withColumnRenamed",
     withWatermark |-> "withWatermark"]

GenericNames == DOMAIN MethodTable

\* the DataFrame methods that pyspark 2.3 added: an older pyspark lacks them
Since23 == {"summary", "unionByName"}

\* the pyspark the layer was imported with: 2.3, or an older one under Python 2
\* (the wrapper of a missing method raises the AttributeError kept in e) or
\* under Python 3 (e is unbound once the except clause ends: a NameError)
PySpark23 == [missing |-> {}, raises |-> ""]
PySparks == {PySpark23,
             [missing |-> Since23, raises |-> "AttributeError"],
             [missing |-> Since23, raises |-> "NameError"]}

\* what the DataFrame method returns: randomSplit a list of DataFrames, every
\* other wrapped method one DataFrame
ReturnClass(m) == IF m = "randomSplit" THEN ListOfDataFrame ELSE DataFrame

\* func(self, *args, **kwargs): the pyspark method, one request on the handle
func(self, m, col, val, f) ==
    LET st == JCall(Start(self.jdf, f), m, col, val, SparkSem(m, col, val, self.jdf)) IN
    IF st.err # NoErr THEN Result(NoObject, st.err, st)
    ELSE Result(Object(ReturnClass(m), st.jdf, self.session, None, self.root),
                NoErr, st)

\* a guard _wrapper could have: it re-wraps whatever func returned
Rewraps_any_result(self, dataframe) ==
    /\ self.cls # SourcedDataFrame
    /\ IsProxy(self)

\* the condition under which _wrapper re-wraps what func returned
Rewraps(self, dataframe) ==
    /\ self.cls # SourcedDataFrame
    /\ IsProxy(self)
    /\ dataframe.cls = DataFrame

\* a bug _wrapper could have: the re-wrapped object is given no implicits
_wrapper_drops_implicits(self, name, col, val, f, pyspark) ==
    IF MethodTable[name] \in pyspark.missing
    THEN Result(NoObject, Error(pyspark.raises, name), Start(self.jdf, f))
    ELSE LET r == func(self, MethodTable[name], col, val, f) IN
         IF r.err # NoErr THEN r
         ELSE IF Rewraps(self, r.ret)
              THEN Result(SourcedDataFrame__init__(self.cls, r.ret.jdf, self.session,
                                                   None, self.root),
                          NoErr, r)
              ELSE r

\* __generate_method(name) and the _wrapper it returns
_wrapper(self, name, col, val, f, pyspark) ==
    IF MethodTable[name] \in pyspark.missing
    THEN Result(NoObject, Error(pyspark.raises, name), Start(self.jdf, f))
    ELSE LET r == func(self, MethodTable[name], col, val, f) IN
         IF r.err # NoErr THEN r
         ELSE IF Rewraps(self, r.ret)
              THEN Result(SourcedDataFrame__init__(self.cls, r.ret.jdf, self.session,
                                                   self.implicits, self.root),
                          NoErr, r)
              ELSE r

----------------------------------------------------------------------------
(* class RepositoriesDataFrame *)

Repositories_references(self, f) ==
    New(ReferencesDataFrame, self, Get(_engine_dataframe(self, f), "getReferences"))

Repositories_remote_references(self, f) ==
    New(ReferencesDataFrame, self, Get(_engine_dataframe(self, f), "getRemoteReferences"))

Repositories_head_ref(self, f) ==
    New(ReferencesDataFrame, self,
        Get(Get(_engine_dataframe(self, f), "getReferences"), "getHEAD"))

\* what master_ref would do if it asked for the master reference
Repositories_master_ref_gets_master(self, f) ==
    New(ReferencesDataFrame, self,
        Get(Get(_engine_dataframe(self, f), "getReferences"), "getMaster"))

Repositories_master_ref(self, f) ==
    New(ReferencesDataFrame, self,
        Get(Get(_engine_dataframe(self, f), "getReferences"), "getHEAD"))

(* class ReferencesDataFrame *)

References_remote_references(self, f) ==
    New(ReferencesDataFrame, self, Get(_engine_dataframe(self, f), "getRemoteReferences"))

\* a bug References.head_ref could have: the references are requested again first
References_head_ref_via_references(self, f) ==
    New(ReferencesDataFrame, self,
        Get(Get(_engine_dataframe(self, f), "getReferences"), "getHEAD"))

References_head_ref(self, f) ==
    New(ReferencesDataFrame, self, Get(_engine_dataframe(self, f), "getHEAD"))

References_master_ref(self, f) ==
    New(ReferencesDataFrame, self, Get(_engine_dataframe(self, f), "getMaster"))

\* a bug ref could have: the condition is on another column than name
References_ref_other_column(self, ref, f) ==
    LET r == _wrapper(self, "filter", "hash", ref, f, PySpark23) IN
    IF r.err # NoErr THEN r
    ELSE Result(SourcedDataFrame__init__(ReferencesDataFrame, r.ret.jdf, self.session,
                                         self.implicits, self.root),
                NoErr, r)

\* ReferencesDataFrame(self.filter(self.name == ref)._jdf, ...); self.name is
\* the name column of the receiver, which every ReferencesDataFrame the engine
\* hands out has
References_ref(self, ref, f) ==
    LET r == _wrapper(self, "filter", "name", ref, f, PySpark23) IN
    IF r.err # NoErr THEN r
    ELSE Result(SourcedDataFrame__init__(ReferencesDataFrame, r.ret.jdf, self.session,
                                         self.implicits, self.root),
                NoErr, r)

References_all_reference_commits(self, f) ==
    New(CommitsDataFrame, self, Get(_engine_dataframe(self, f), "getAllReferenceCommits"))

References_commits(self, f) ==
    New(CommitsDataFrame, self, Get(_engine_dataframe(self, f), "getCommits"))

References_blobs(self, f) ==
    New(BlobsDataFrame, self, Get(_engine_dataframe(self, f), "getBlobs"))

(* class CommitsDataFrame *)

Commits_all_reference_commits(self, f) ==
    New(CommitsDataFrame, self, Get(_engine_dataframe(self, f), "getAllReferenceCommits"))

Commits_tree_entries(self, f) ==
    New(TreeEntriesDataFrame, self, Get(_engine_dataframe(self, f), "getTreeEntries"))

Commits_blobs(self, f) ==
    New(BlobsDataFrame, self, Get(_engine_dataframe(self, f), "getBlobs"))

(* class TreeEntriesDataFrame *)

TreeEntries_blobs(self, f) ==
    New(BlobsDataFrame, self, Get(_engine_dataframe(self, f), "getBlobs"))

(* class BlobsDataFrame *)

Blobs_classify_languages(self, f) ==
    New(BlobsWithLanguageDataFrame, self, Get(_engine_dataframe(self, f), "classifyLanguages"))

Blobs_extract_uasts(self, f) ==
    New(UASTsDataFrame, self, Get(_engine_dataframe(self, f), "extractUASTs"))

(* class BlobsWithLanguageDataFrame *)

\* a bug extract_uasts could have: the result keeps the class of the receiver
BlobsWithLanguage_extract_uasts_keeps_class(self, f) ==
    New(BlobsWithLanguageDataFrame, self, Get(_engine_dataframe(self, f), "extractUASTs"))

BlobsWithLanguage_extract_uasts(self, f) ==
    New(UASTsDataFrame, self, Get(_engine_dataframe(self, f), "extractUASTs"))

(* class UASTsDataFrame *)

UASTs_query_uast(self, f) ==
    New(UASTsDataFrame, self, Get(_engine_dataframe(self, f), "queryUAST"))

UASTs_extract_tokens(self, f) ==
    New(UASTsDataFrame, self, Get(_engine_dataframe(self, f), "extractTokens"))

----------------------------------------------------------------------------
(* class Engine *)

NoEngine == [alive |-> FALSE, session |-> None, implicits |-> None]

JavaPackageMsg == "'JavaPackage' object is not callable"
OtherTypeMsg == "apply() takes exactly 3 arguments"
PackageNotFoundMsg == "package \"tech.sourced:engine:<version>\" cannot be found. Please, provide a jar with the package or install the package using --packages"

TypeErrors == {Error("TypeError", JavaPackageMsg), Error("TypeError", OtherTypeMsg)}

\* the failures of the requests Engine.__init__ issues (at most three)
InitFails == {[at |-> 0, err |-> NoErr]} \cup
             {[at |-> k, err |-> e] : k \in 1..3, e \in EngineErrors \cup TypeErrors}

\* 'JavaPackage' in e.args[0]
MentionsJavaPackage(e) == e.msg = JavaPackageMsg

\* a bug the except clause could have: the message of the TypeError is not looked at
ApplyRaises_any_TypeError(e) ==
    IF e.type = "TypeError" THEN Error("Exception", PackageNotFoundMsg) ELSE e

\* the except clause around Engine.apply
ApplyRaises(e) ==
    IF e.type = "TypeError"
    THEN IF MentionsJavaPackage(e) THEN Error("Exception", PackageNotFoundMsg) ELSE e
    ELSE e

\* a bug Engine.__init__ could have: the two keys are set on every session
Engine__init__sets_every_session(session, repos_path, repos_format, skip_cleanup, skip_read_errors, f) ==
    LET applied == JCall(Start(NoJdf, f), "Engine.apply", "", "", NoJdf)
        tried == IF applied.err # NoErr
                 THEN [applied EXCEPT !.err = ApplyRaises(applied.err)]
                 ELSE applied
        cleaned == IF skip_cleanup
                   THEN JCall(tried, "skipCleanup", "", "", NoJdf) ELSE tried
        done == IF skip_read_errors
                THEN JCall(cleaned, "skipReadErrors", "", "", NoJdf) ELSE cleaned
    IN [self |-> IF done.err = NoErr
                 THEN [alive |-> TRUE, session |-> session, implicits |-> Implicits(session)]
                 ELSE NoEngine,
        conf |-> [s \in Sessions |->
                     (PathKey :> repos_path) @@ (FormatKey :> repos_format)],
        err |-> done.err, reqs |-> done.reqs, thrown |-> done.thrown,
        thrownBy |-> done.thrownBy]

\* Engine.__init__: the new object, the session configuration it leaves, the
\* error it raises and the requests it issued
Engine__init__(session, repos_path, repos_format, skip_cleanup, skip_read_errors, f) ==
    LET confAfter == [conf EXCEPT ![session] =
                         [[conf[session] EXCEPT ![PathKey] = repos_path]
                             EXCEPT ![FormatKey] = repos_format]]
        applied == JCall(Start(NoJdf, f), "Engine.apply", "", "", NoJdf)
        tried == IF applied.err # NoErr
                 THEN [applied EXCEPT !.err = ApplyRaises(applied.err)]
                 ELSE applied
        cleaned == IF skip_cleanup
                   THEN JCall(tried, "skipCleanup", "", "", NoJdf) ELSE tried
        done == IF skip_read_errors
                THEN JCall(cleaned, "skipReadErrors", "", "", NoJdf) ELSE cleaned
    IN [self |-> IF done.err = NoErr
                 THEN [alive |-> TRUE, session |-> session, implicits |-> Implicits(session)]
                 ELSE NoEngine,
        conf |-> confAfter, err |-> done.err, reqs |-> done.reqs, thrown |-> done.thrown,
        thrownBy |-> done.thrownBy]

\* Engine.repositories
Engine_repositories(self, f) ==
    LET st == Get(Start(NoJdf, f), "getRepositories") IN
    IF st.err # NoErr THEN Result(NoObject, st.err, st)
    ELSE Result(SourcedDataFrame__init__(RepositoriesDataFrame, st.jdf, self.session,
                                         self.implicits, "engine"),
                NoErr, st)

\* an argument of Engine.blobs: a list of strings, or a single string
ArgList(items) == [list |-> TRUE, items |-> items]
ArgScalar(item) == [list |-> FALSE, items |-> <<item>>]

\* isinstance(arg, list)
isinstance_list(arg) == arg.list

\* engine.getBlobs(repository_ids, reference_names, commit_hashes): the blobs of
\* the named references, of all of them when none is named
GetBlobs(reference_names) ==
    IF reference_names.items = <<>> THEN [refs |-> RefNames]
    ELSE [refs |-> {reference_names.items[i] : i \in DOMAIN reference_names.items}]

\* a bug Engine.blobs could have: commit_hashes is passed on unchecked
Engine_blobs_unchecked_hashes(self, repository_ids, reference_names, commit_hashes, f) ==
    IF ~isinstance_list(repository_ids)
    THEN Result(NoObject, Error("Exception", "repository_ids must be a list"), Start(NoJdf, f))
    ELSE IF ~isinstance_list(reference_names)
    THEN Result(NoObject, Error("Exception", "reference_names must be a list"), Start(NoJdf, f))
    ELSE LET st == JCall(Start(NoJdf, f), "getBlobs", "", "", GetBlobs(reference_names)) IN
         IF st.err # NoErr THEN Result(NoObject, st.err, st)
         ELSE Result(SourcedDataFrame__init__(BlobsDataFrame, st.jdf, self.session,
                                              self.implicits, "engine"),
                     NoErr, st)

\* Engine.blobs
Engine_blobs(self, repository_ids, reference_names, commit_hashes, f) ==
    IF ~isinstance_list(repository_ids)
    THEN Result(NoObject, Error("Exception", "repository_ids must be a list"), Start(NoJdf, f))
    ELSE IF ~isinstance_list(reference_names)
    THEN Result(NoObject, Error("Exception", "reference_names must be a list"), Start(NoJdf, f))
    ELSE IF ~isinstance_list(commit_hashes)
    THEN Result(NoObject, Error("Exception", "commit_hashes must be a list"), Start(NoJdf, f))
    ELSE LET st == JCall(Start(NoJdf, f), "getBlobs", "", "", GetBlobs(reference_names)) IN
         IF st.err # NoErr THEN Result(NoObject, st.err, st)
         ELSE Result(SourcedDataFrame__init__(BlobsDataFrame, st.jdf, self.session,
                                              self.implicits, "engine"),
                     NoErr, st)

\* the Engine object as a returned value
EngineObject(self) == Object("Engine", NoJdf, self.session, self.implicits, "engine")

\* what engine.fromRepositories() returns: the JVM engine, a py4j JavaObject
JavaEngine(self) == Object("JavaObject", NoJdf, self.session, None, "engine")

\* Engine.from_metadata
Engine_from_metadata(self, f) ==
    LET st == Get(Start(NoJdf, f), "fromMetadata") IN
    IF st.err # NoErr THEN Result(NoObject, st.err, st)
    ELSE Result(EngineObject(self), NoErr, st)

\* Engine.from_repositories
Engine_from_repositories(self, f) ==
    LET st == Get(Start(NoJdf, f), "fromRepositories") IN
    IF st.err # NoErr THEN Result(NoObject, st.err, st)
    ELSE Result(JavaEngine(self), NoErr, st)

\* Engine.save_metadata: returns None
Engine_save_metadata(self, f) ==
    LET st == Get(Start(NoJdf, f), "saveMetadata") IN
    Result(NoObject, st.err, st)

----------------------------------------------------------------------------
(* The state machine: the caller's calls, one action per method *)

\* the record of a call: the method, its arguments as far as the model tells
\* them apart (arg: the reference name or filter value; flags: the boolean
\* arguments, for Engine.blobs whether each argument is a list), the receiver
\* after the call, and the outcome
CallRecord(op, arg, flags, recv, r) ==
    [op |-> op, arg |-> arg, flags |-> flags, recv |-> recv, reqs |-> r.reqs,
     conv |-> r.conv, thrown |-> r.thrown, thrownBy |-> r.thrownBy, err |-> r.err,
     ret |-> r.ret]

NoCall == CallRecord(None, "", <<>>, NoObject, Result(NoObject, NoErr, Start(NoJdf, NoFail)))

Init ==
    /\ engine = NoEngine
    /\ conf = [s \in Sessions |-> [k \in {PathKey, FormatKey} |-> None]]
    /\ cur = NoObject
    /\ lastCall = NoCall

\* a call op(arg) on recv that gave r: the caller keeps what it returned
Call(op, arg, flags, recv, r) ==
    /\ lastCall' = CallRecord(op, arg, flags, recv, r)
    /\ cur' = IF r.err = NoErr THEN r.ret ELSE cur
    /\ UNCHANGED <<engine, conf>>

\* a call on the Engine object: the caller's proxy is left as it is
EngineCall(op, r) ==
    /\ lastCall' = CallRecord(op, "", <<>>, EngineObject(engine), r)
    /\ UNCHANGED <<engine, conf, cur>>

\* a navigation method of class cls, called on the object held, that gave r
Nav(cls, op, r) ==
    /\ cur.cls = cls
    /\ Call(op, "", <<>>, cur, r)

\* Engine(session, repos_path, repos_format, skip_cleanup, skip_read_errors)
EngineInit ==
    /\ ~engine.alive
    /\ \E session \in Sessions, skip_cleanup \in BOOLEAN, skip_read_errors \in BOOLEAN,
          f \in InitFails :
         LET r == Engine__init__(session, ReposPath, ReposFormat,
                                 skip_cleanup, skip_read_errors, f) IN
         /\ engine' = r.self
         /\ conf' = r.conf
         /\ lastCall' = CallRecord("Engine", "", <<skip_cleanup, skip_read_errors>>, NoObject,
                                   [ret |-> IF r.err = NoErr THEN EngineObject(r.self)
                                            ELSE NoObject,
                                    err |-> r.err, reqs |-> r.reqs, thrown |-> r.thrown,
                                    thrownBy |-> r.thrownBy, conv |-> 0])
         /\ UNCHANGED cur

EngineRepositories ==
    /\ engine.alive
    /\ \E f \in Fails :
         Call("Engine.repositories", "", <<>>, EngineObject(engine),
              Engine_repositories(engine, f))

\* the values passed for an argument of Engine.blobs: the default empty list,
\* a list of one string, the string itself
BlobArgs(item) == {ArgList(<<>>), ArgList(<<item>>), ArgScalar(item)}

EngineBlobs ==
    /\ engine.alive
    /\ \E repository_ids \in BlobArgs("github.com/src-d/engine") \ {ArgList(<<>>)},
          reference_names \in BlobArgs(HEAD),
          commit_hashes \in BlobArgs("fff7062de8474d10a67d417ccea87ba6f58ca81d") \ {ArgList(<<>>)},
          f \in Fails :
         Call("Engine.blobs", "",
              <<isinstance_list(repository_ids), isinstance_list(reference_names),
                isinstance_list(commit_hashes)>>,
              EngineObject(engine),
              Engine_blobs(engine, repository_ids, reference_names, commit_hashes, f))

EngineFromMetadata ==
    /\ engine.alive
    /\ \E f \in Fails : EngineCall("Engine.from_metadata", Engine_from_metadata(engine, f))

EngineFromRepositories ==
    /\ engine.alive
    /\ \E f \in Fails :
         EngineCall("Engine.from_repositories", Engine_from_repositories(engine, f))

EngineSaveMetadata ==
    /\ engine.alive
    /\ \E f \in Fails : EngineCall("Engine.save_metadata", Engine_save_metadata(engine, f))

\* SourcedDataFrame(jdf, session, implicits), constructed by the caller
NewSourcedDataFrame ==
    \E session \in Sessions :
        Call("SourcedDataFrame", "", <<>>, NoObject,
             Result(SourcedDataFrame__init__(SourcedDataFrame, [refs |-> RefNames], session,
                                             Implicits(session), "user"),
                    NoErr, Start(NoJdf, NoFail)))

\* the arguments of a generic method that the model tells apart: for filter and
\* where, a condition on the name column or another condition
GenericArgs(name) ==
    IF MethodTable[name] = "filter"
    THEN {[col |-> "name", val |-> r] : r \in RefNames} \cup {[col |-> "", val |-> ""]}
    ELSE {[col |-> "", val |-> ""]}

\* a wrapped DataFrame method, called on the proxy held
GenericOp ==
    /\ IsProxy(cur)
    /\ \E name \in GenericNames :
         \E a \in GenericArgs(name), f \in Fails,
            pyspark \in IF MethodTable[name] \in Since23 THEN PySparks ELSE {PySpark23} :
            Call(name, a.val, <<>>, cur, _wrapper(cur, name, a.col, a.val, f, pyspark))

RepositoriesReferences ==
    \E f \in Fails :
        Nav(RepositoriesDataFrame, "RepositoriesDataFrame.references",
            Repositories_references(cur, f))
RepositoriesRemoteReferences ==
    \E f \in Fails :
        Nav(RepositoriesDataFrame, "RepositoriesDataFrame.remote_references",
            Repositories_remote_references(cur, f))
RepositoriesHeadRef ==
    \E f \in Fails2 :
        Nav(RepositoriesDataFrame, "RepositoriesDataFrame.head_ref",
            Repositories_head_ref(cur, f))
RepositoriesMasterRef ==
    \E f \in Fails2 :
        Nav(RepositoriesDataFrame, "RepositoriesDataFrame.master_ref",
            Repositories_master_ref(cur, f))

ReferencesRemoteReferences ==
    \E f \in Fails :
        Nav(ReferencesDataFrame, "ReferencesDataFrame.remote_references",
            References_remote_references(cur, f))
ReferencesHeadRef ==
    \E f \in Fails :
        Nav(ReferencesDataFrame, "ReferencesDataFrame.head_ref",
            References_head_ref(cur, f))
ReferencesMasterRef ==
    \E f \in Fails :
        Nav(ReferencesDataFrame, "ReferencesDataFrame.master_ref",
            References_master_ref(cur, f))
ReferencesRef ==
    /\ cur.cls = ReferencesDataFrame
    /\ \E ref \in RefNames, f \in Fails :
         Call("ReferencesDataFrame.ref", ref, <<>>, cur, References_ref(cur, ref, f))
ReferencesAllReferenceCommits ==
    \E f \in Fails :
        Nav(ReferencesDataFrame, "ReferencesDataFrame.all_reference_commits",
            References_all_reference_commits(cur, f))
ReferencesCommits ==
    \E f \in Fails :
        Nav(ReferencesDataFrame, "ReferencesDataFrame.commits",
            References_commits(cur, f))
ReferencesBlobs ==
    \E f \in Fails :
        Nav(ReferencesDataFrame, "ReferencesDataFrame.blobs",
            References_blobs(cur, f))

CommitsAllReferenceCommits ==
    \E f \in Fails :
        Nav(CommitsDataFrame, "CommitsDataFrame.all_reference_commits",
            Commits_all_reference_commits(cur, f))
CommitsTreeEntries ==
    \E f \in Fails :
        Nav(CommitsDataFrame, "CommitsDataFrame.tree_entries",
            Commits_tree_entries(cur, f))
CommitsBlobs ==
    \E f \in Fails :
        Nav(CommitsDataFrame, "CommitsDataFrame.blobs",
            Commits_blobs(cur, f))

TreeEntriesBlobs ==
    \E f \in Fails :
        Nav(TreeEntriesDataFrame, "TreeEntriesDataFrame.blobs",
            TreeEntries_blobs(cur, f))

BlobsClassifyLanguages ==
    \E f \in Fails :
        Nav(BlobsDataFrame, "BlobsDataFrame.classify_languages",
            Blobs_classify_languages(cur, f))
BlobsExtractUasts ==
    \E f \in Fails :
        Nav(BlobsDataFrame, "BlobsDataFrame.extract_uasts",
            Blobs_extract_uasts(cur, f))

BlobsWithLanguageExtractUasts ==
    \E f \in Fails :
        Nav(BlobsWithLanguageDataFrame, "BlobsWithLanguageDataFrame.extract_uasts",
            BlobsWithLanguage_extract_uasts(cur, f))

UASTsQueryUast ==
    \E f \in Fails :
        Nav(UASTsDataFrame, "UASTsDataFrame.query_uast",
            UASTs_query_uast(cur, f))
UASTsExtractTokens ==
    \E f \in Fails :
        Nav(UASTsDataFrame, "UASTsDataFrame.extract_tokens",
            UASTs_extract_tokens(cur, f))

Next ==
    \/ EngineInit
    \/ EngineRepositories
    \/ EngineBlobs
    \/ EngineFromMetadata
    \/ EngineFromRepositories
    \/ EngineSaveMetadata
    \/ NewSourcedDataFrame
    \/ GenericOp
    \/ RepositoriesReferences
    \/ RepositoriesRemoteReferences
    \/ RepositoriesHeadRef
    \/ RepositoriesMasterRef
    \/ ReferencesRemoteReferences
    \/ ReferencesHeadRef
    \/ ReferencesMasterRef
    \/ ReferencesRef
    \/ ReferencesAllReferenceCommits
    \/ ReferencesCommits
    \/ ReferencesBlobs
    \/ CommitsAllReferenceCommits
    \/ CommitsTreeEntries
    \/ CommitsBlobs
    \/ TreeEntriesBlobs
    \/ BlobsClassifyLanguages
    \/ BlobsExtractUasts
    \/ BlobsWithLanguageExtractUasts
    \/ UASTsQueryUast
    \/ UASTsExtractTokens

Spec == Init /\ [][Next]_vars

----------------------------------------------------------------------------
(* The claims *)

Ok == lastCall.err = NoErr

\* the navigation methods and the class their docstrings declare (:rtype:)
Destination ==
    [n \in {"RepositoriesDataFrame.references", "RepositoriesDataFrame.remote_references",
            "RepositoriesDataFrame.head_ref", "RepositoriesDataFrame.master_ref",
            "ReferencesDataFrame.remote_references", "ReferencesDataFrame.head_ref",
            "ReferencesDataFrame.master_ref", "ReferencesDataFrame.ref"}
        |-> ReferencesDataFrame] @@
    [n \in {"ReferencesDataFrame.all_reference_commits", "ReferencesDataFrame.commits",
            "CommitsDataFrame.all_reference_commits"} |-> CommitsDataFrame] @@
    [n \in {"CommitsDataFrame.tree_entries"} |-> TreeEntriesDataFrame] @@
    [n \in {"ReferencesDataFrame.blobs", "CommitsDataFrame.blobs",
            "TreeEntriesDataFrame.blobs"} |-> BlobsDataFrame] @@
    [n \in {"BlobsDataFrame.classify_languages"} |-> BlobsWithLanguageDataFrame] @@
    [n \in {"BlobsDataFrame.extract_uasts", "BlobsWithLanguageDataFrame.extract_uasts",
            "UASTsDataFrame.query_uast", "UASTsDataFrame.extract_tokens"}
        |-> UASTsDataFrame]

NavOps == DOMAIN Destination

IsGeneric == lastCall.op \in GenericNames
IsNav == lastCall.op \in NavOps

\* C1: a generic operation (any name of the method table) applied to an instance
\* of a specialized subtype P returns a result whose class is P.
C1_SubtypePreservation ==
    (IsGeneric /\ Ok /\ lastCall.recv.cls \in Specialized)
        => lastCall.ret.cls = lastCall.recv.cls

\* C2: a navigation method that returns, returns an object whose class is exactly
\* the class declared for its destination, whatever produced the receiver.
C2_NavigationDestination ==
    (IsNav /\ Ok) => lastCall.ret.cls = Destination[lastCall.op]

\* C2 witness: extract_uasts has returned a UASTsDataFrame on a
\* BlobsWithLanguageDataFrame (blobs().classify_languages().extract_uasts())
C2_Witness ==
    /\ lastCall.op = "BlobsWithLanguageDataFrame.extract_uasts"
    /\ Ok
    /\ lastCall.recv.cls = BlobsWithLanguageDataFrame
    /\ cur.cls = UASTsDataFrame

\* the names of the requests of the last call, in order
Requested == [i \in DOMAIN lastCall.reqs |-> lastCall.reqs[i].m]

BlobParams == <<"repository_ids", "reference_names", "commit_hashes">>

\* the arguments of the last Engine.blobs call that are not lists
NotLists == {i \in DOMAIN lastCall.flags : ~lastCall.flags[i]}

\* C3: Engine.blobs called with a non-list for any of its three arguments raises
\* the argument-shape error naming an offending parameter, has issued no request
\* to the engine (no getBlobs) and returns no proxy.
C3_ArgumentShapeFailFast ==
    (lastCall.op = "Engine.blobs" /\ NotLists # {})
        => /\ lastCall.err \in {Error("Exception", BlobParams[i] \o " must be a list") :
                                   i \in NotLists}
           /\ lastCall.reqs = <<>>
           /\ lastCall.thrown = NoErr
           /\ lastCall.ret = NoObject

\* C3 witness: Engine.blobs was called with a list for repository_ids and a
\* string for the two others, and raised for reference_names
C3_Witness ==
    /\ lastCall.op = "Engine.blobs"
    /\ lastCall.flags = <<TRUE, FALSE, FALSE>>
    /\ lastCall.err = Error("Exception", "reference_names must be a list")
    /\ lastCall.reqs = <<>>

RepoHeadOps == {"RepositoriesDataFrame.head_ref", "RepositoriesDataFrame.master_ref"}

\* C4, as stated: every navigation call issues exactly one handle-producing
\* request to the engine.
C4_OneRequestPerNavigation ==
    IsNav => Len(lastCall.reqs) = 1

\* C4, amended: a navigation call that returns has issued exactly one
\* handle-producing request, except the repository-level head_ref and
\* master_ref, which have issued two (getReferences, then getHEAD); a call that
\* raises has issued no more than that; so has Engine.repositories, and each step
\* of the chain repositories, references, ref, commits, tree_entries, blobs,
\* classify_languages, extract_uasts adds one request.
C4_OneRequestExceptRepositoryHead ==
    (IsNav \/ lastCall.op = "Engine.repositories")
        => IF lastCall.op \in RepoHeadOps
           THEN IF Ok THEN Requested = <<"getReferences", "getHEAD">>
                ELSE Requested \in {<<"getReferences">>, <<"getReferences", "getHEAD">>}
           ELSE IF Ok THEN Len(lastCall.reqs) = 1 ELSE Len(lastCall.reqs) <= 1

\* C4 witness: ref(name) has returned after one request, the filter
C4_Witness ==
    /\ lastCall.op = "ReferencesDataFrame.ref"
    /\ Ok
    /\ Requested = <<"filter">>
    /\ cur.cls = ReferencesDataFrame

\* C5: a generic operation on an instance of the base class SourcedDataFrame
\* returns what pyspark returned, not re-wrapped; the result is re-wrapped if and
\* only if the receiver is of a specialized subtype.
C5_BaseProxyAsymmetry ==
    (IsGeneric /\ Ok)
        => /\ IsProxy(lastCall.ret) <=> lastCall.recv.cls \in Specialized
           /\ lastCall.recv.cls = SourcedDataFrame
                 => lastCall.ret = Object(ReturnClass(MethodTable[lastCall.op]),
                                          lastCall.ret.jdf, lastCall.recv.session, None,
                                          lastCall.recv.root)

\* the objects in the state
Held == {cur, lastCall.ret, lastCall.recv}

\* C6: every proxy that descends from the Engine entry point carries the
\* session and the implicits of that Engine.
C6_ContextPropagation ==
    \A o \in Held :
        (IsProxy(o) /\ o.root = "engine")
            => /\ engine.alive
               /\ o.session = engine.session
               /\ o.implicits = engine.implicits

\* C6 witness: a generic operation on a UASTsDataFrame of an Engine built on
\* session2 has returned a UASTsDataFrame
C6_Witness ==
    /\ IsGeneric
    /\ Ok
    /\ cur.cls = UASTsDataFrame
    /\ cur.root = "engine"
    /\ engine.session = "session2"
    /\ cur.implicits = Implicits("session2")

Unset == [k \in {PathKey, FormatKey} |-> None]

\* the sessions whose configuration a step writes
Written == {s \in Sessions : conf'[s] # conf[s]}

\* the calls made on a proxy
OnProxy(op) == op \in NavOps \cup GenericNames

C8_DelegatedEngineErrors ==
    (OnProxy(lastCall.op) /\ lastCall.thrown # NoErr)
        => /\ lastCall.err = lastCall.thrown
           /\ Len(lastCall.reqs) = 1
           /\ lastCall.ret = NoObject

\* C8, amended: when the engine raises during a generic or navigation operation,
\* the caller gets that same failure, nothing is returned, and the failed request
\* was issued once and is the last one of the call: the only one, except that the
\* repository-level head_ref and master_ref have issued getReferences before a
\* failing getHEAD.
C8_DelegatedErrorsNoRetry ==
    (OnProxy(lastCall.op) /\ lastCall.thrown # NoErr)
        => /\ lastCall.err = lastCall.thrown
           /\ lastCall.ret = NoObject
           /\ Requested[Len(Requested)] = lastCall.thrownBy
           /\ \/ Len(lastCall.reqs) = 1
              \/ /\ lastCall.op \in RepoHeadOps
                 /\ Requested = <<"getReferences", "getHEAD">>

\* C8 witness: the engine has raised in getCommits, called by commits on a
\* ReferencesDataFrame, and the caller got that error
C8_Witness ==
    /\ lastCall.op = "ReferencesDataFrame.commits"
    /\ lastCall.thrown = Py4JJavaError
    /\ lastCall.err = Py4JJavaError
    /\ Requested = <<"getCommits">>
    /\ lastCall.ret = NoObject

\* C9: when Engine.apply raises a TypeError whose message mentions JavaPackage,
\* the construction of the Engine raises the exception that asks for the
\* package, having called Engine.apply once and neither skipCleanup nor
\* skipReadErrors; any other TypeError of Engine.apply is raised unchanged.
C9_ConfigurationError ==
    (lastCall.op = "Engine" /\ lastCall.thrownBy = "Engine.apply"
                            /\ lastCall.thrown.type = "TypeError")
        => /\ Requested = <<"Engine.apply">>
           /\ lastCall.ret = NoObject
           /\ ~engine.alive
           /\ lastCall.err = IF lastCall.thrown.msg = JavaPackageMsg
                             THEN Error("Exception", PackageNotFoundMsg)
                             ELSE lastCall.thrown

\* C9 witness: Engine(..., skip_cleanup=True, skip_read_errors=True) has failed
\* on a missing package
C9_Witness ==
    /\ lastCall.op = "Engine"
    /\ lastCall.flags = <<TRUE, TRUE>>
    /\ lastCall.thrown = Error("TypeError", JavaPackageMsg)
    /\ lastCall.err = Error("Exception", PackageNotFoundMsg)
    /\ Requested = <<"Engine.apply">>

SourceSwitches == {"Engine.from_metadata", "Engine.from_repositories"}

\* the request each data-source switch makes
SwitchRequest == [n \in SourceSwitches |->
                     IF n = "Engine.from_metadata" THEN "fromMetadata" ELSE "fromRepositories"]

\* C11: from_metadata and from_repositories each issue one request to the engine
\* (fromMetadata, fromRepositories) and return the Engine instance they were
\* called on, so that the caller still holds the entry point after either.
C11_SourceSwitchReturnsEngine ==
    (lastCall.op \in SourceSwitches /\ Ok)
        => /\ Requested = <<SwitchRequest[lastCall.op]>>
           /\ lastCall.recv = EngineObject(engine)
           /\ lastCall.ret = lastCall.recv

\* the requests a call made, as a set of names
RequestedNames == {Requested[i] : i \in DOMAIN Requested}

Underlying ==
    func(lastCall.recv, MethodTable[lastCall.op],
         IF lastCall.arg = "" THEN "" ELSE "name", lastCall.arg, NoFail).ret

====
